---- MODULE Spec2Model ----
(***************************************************************************)
(* Model of the 0RB_AETHER Brain orchestrator (core/brain).                *)
(*                                                                         *)
(*  - intent.rs      IntentParser: the classifier (pure functions)         *)
(*  - main.rs        BrainState behind Arc<RwLock<..>>, accept loop,       *)
(*                   shutdown-signal task                                  *)
(*  - api.rs         the JSON-RPC handlers served per connection           *)
(*  - store.rs       SecureStore (intents table, fallible writes)          *)
(*  - agent_swarm.rs AgentSwarm: registry, tournament, routing cache       *)
(*                                                                         *)
(* Real numbers (f64 in the source) are fixed-point integers here:         *)
(*   confidences and thresholds of the classifier/gate in units of 1e-5,   *)
(*   agent success rates in units of 1e-4, critique scores in units of     *)
(*   1e-2.  Every product the code forms is exact at these scales for the  *)
(*   inputs enumerated below, so comparisons are those of real arithmetic. *)
(***************************************************************************)
EXTENDS Integers, Sequences, FiniteSets, TLC

VARIABLES
    \* ---- main.rs: BrainState and the tokio RwLock around it
    confidence_threshold,   \* BrainState.confidence_threshold (units of 1e-5)
    network_allowed,        \* BrainState.network_allowed
    emergency_triggered,    \* BrainState.emergency_triggered
    store_intents,          \* SecureStore: ids of the rows of table intents
    read_holders,           \* tasks holding a read guard of the RwLock
    write_holders,          \* tasks holding a write guard of the RwLock
    \* ---- main.rs: the accept loop and the signal task
    main_pc,                \* "accept" | "check" | "exit"
    signal_pc,              \* "waiting" | "locked" | "done"
    \* ---- api.rs: one task per accepted connection
    pc,                     \* pc[c]: "closed" | "idle" | "locked"
    local,                  \* local[c]: the result the handler of c has built
    resp,                   \* resp[c]: the last response written to connection c
    \* ---- what the clients have seen (message history)
    next_id,                \* number of Uuids drawn for intents so far
    returned,               \* returned[i]: the parse_intent result that carried id i
    confirmed,              \* intent ids answered with authorized = true
    \* ---- agent_swarm.rs: AgentSwarm
    agents,                 \* AgentSwarm.agents: id -> AgentNode
    routing_cache,          \* AgentSwarm.routing_cache: task type -> agent id
    tournament_history,     \* AgentSwarm.tournament_history
    perf_updates,           \* update_performance calls made on registered agents
    last                    \* the last swarm call and what it returned

rpc_vars == <<confidence_threshold, network_allowed, emergency_triggered,
              store_intents, read_holders, write_holders, main_pc, signal_pc,
              pc, local, resp, next_id, returned, confirmed>>
swarm_vars == <<agents, routing_cache, tournament_history, perf_updates, last>>
vars == <<rpc_vars, swarm_vars>>

None == "none"

(***************************************************************************)
(* Bounds of the model.                                                    *)
(***************************************************************************)
MaxIntents == 1         \* parse_intent requests that reach the classifier
MaxHistory == 2         \* tournaments run
MaxUpdates == 2         \* update_performance calls on a seeded agent
MaxVoters == 4          \* responses in a tournament whose critiques all agree
MaxCalls == 2           \* classifications recorded in one behaviour
MaxRounds == 3          \* the largest max_rounds a discussion is called with
MaxFragments == 2       \* pieces an output string is put together from

Conns == {"c1", "c2"}

(***************************************************************************)
(* intent.rs -- the classifier.                                            *)
(* A text is a sequence of whitespace-separated words.  Occ(w) gives, for  *)
(* each word of the vocabulary, the rules whose regex matches inside it    *)
(* and how many non-overlapping matches find_iter yields there.            *)
(***************************************************************************)
ConfScale == 100 * 10 * 100

Patterns ==
    << [category |-> "System",    action |-> "system_power",      base |-> 90],
       [category |-> "System",    action |-> "storage_op",        base |-> 85],
       [category |-> "Network",   action |-> "network_access",    base |-> 85],
       [category |-> "Network",   action |-> "web_request",       base |-> 80],
       [category |-> "Agent",     action |-> "agent_invoke",      base |-> 90],
       [category |-> "Agent",     action |-> "content_gen",       base |-> 85],
       [category |-> "Developer", action |-> "dev_action",        base |-> 90],
       [category |-> "Developer", action |-> "vcs_action",        base |-> 95],
       [category |-> "Security",  action |-> "security_op",       base |-> 90],
       [category |-> "Security",  action |-> "data_destruction",  base |-> 95],
       [category |-> "Query",     action |-> "information_query", base |-> 70] >>

NoMatch == [r \in 1..Len(Patterns) |-> 0]

Occ(w) ==
    CASE w = "shutdown" -> [NoMatch EXCEPT ![1] = 1]
      [] w = "disk"     -> [NoMatch EXCEPT ![2] = 1]
      [] w = "connect"  -> [NoMatch EXCEPT ![3] = 1]
      [] w = "internet" -> [NoMatch EXCEPT ![3] = 1]
      [] w = "webapi"   -> [NoMatch EXCEPT ![4] = 2]
      [] w = "ask"      -> [NoMatch EXCEPT ![5] = 1]
      [] w = "write"    -> [NoMatch EXCEPT ![6] = 1]
      [] w = "test"     -> [NoMatch EXCEPT ![7] = 1]
      [] w = "git"      -> [NoMatch EXCEPT ![8] = 1]
      [] w = "commit"   -> [NoMatch EXCEPT ![8] = 1]
      [] w = "lock"     -> [NoMatch EXCEPT ![9] = 1]
      [] w = "wipe"     -> [NoMatch EXCEPT ![10] = 1]
      [] w = "delete"   -> [NoMatch EXCEPT ![10] = 1]
      [] w = "erase"    -> [NoMatch EXCEPT ![10] = 1]
      [] w = "show"     -> [NoMatch EXCEPT ![11] = 1]
      [] w = "list"     -> [NoMatch EXCEPT ![11] = 1]
      [] OTHER          -> NoMatch

RECURSIVE match_count(_, _)
match_count(text, r) ==
    IF text = << >> THEN 0
    ELSE Occ(Head(text))[r] + match_count(Tail(text), r)

word_count(text) == Len(text)

is_match(text, r) == match_count(text, r) > 0

Min(a, b) == IF a <= b THEN a ELSE b

\* the adjusted confidence without the final .min(0.99)
calculate_confidence_uncapped(text, r, base) ==
    LET length_factor == IF word_count(text) > 3 THEN 10 ELSE 9
        match_factor  == 100 + (match_count(text, r) - 1) * 5
    IN  base * length_factor * match_factor

\* (base * length_factor * match_factor).min(0.99), in units of 1e-5
calculate_confidence(text, r, base) ==
    LET length_factor == IF word_count(text) > 3 THEN 10 ELSE 9
        match_factor  == 100 + (match_count(text, r) - 1) * 5
    IN  Min(base * length_factor * match_factor, 99 * (ConfScale \div 100))

UnknownIntent == [category |-> "Unknown", action |-> "unknown",
                  confidence |-> 3 * (ConfScale \div 10)]

NoBest == [matched |-> FALSE]

\* a scan in which a later rule of equal confidence replaces the earlier one
RECURSIVE best_match_last_wins(_, _, _)
best_match_last_wins(text, r, best) ==
    IF r > Len(Patterns) THEN best
    ELSE IF is_match(text, r)
         THEN LET c == calculate_confidence(text, r, Patterns[r].base)
              IN  IF ~best.matched \/ c >= best.confidence
                  THEN best_match_last_wins(text, r + 1,
                           [matched |-> TRUE,
                            category |-> Patterns[r].category,
                            action |-> Patterns[r].action, confidence |-> c])
                  ELSE best_match_last_wins(text, r + 1, best)
         ELSE best_match_last_wins(text, r + 1, best)

\* the loop of IntentParser::parse over the rules from r on
RECURSIVE best_match(_, _, _)
best_match(text, r, best) ==
    IF r > Len(Patterns) THEN best
    ELSE IF is_match(text, r)
         THEN LET c == calculate_confidence(text, r, Patterns[r].base)
              IN  IF ~best.matched \/ c > best.confidence
                  THEN best_match(text, r + 1,
                           [matched |-> TRUE,
                            category |-> Patterns[r].category,
                            action |-> Patterns[r].action, confidence |-> c])
                  ELSE best_match(text, r + 1, best)
         ELSE best_match(text, r + 1, best)

\* a classifier that reads the shared state: the confidence is cut at the
\* threshold in force
parse_under_threshold(text) ==
    LET best == best_match(text, 1, NoBest)
        m    == IF best.matched THEN best ELSE UnknownIntent
    IN  [category |-> m.category, action |-> m.action,
         confidence |-> Min(m.confidence, confidence_threshold),
         raw_text |-> text, word_count |-> word_count(text)]

\* IntentParser::parse without the identity and the timestamp
parse(text) ==
    LET best == best_match(text, 1, NoBest)
        m    == IF best.matched THEN best ELSE UnknownIntent
    IN  [category |-> m.category, action |-> m.action,
         confidence |-> m.confidence, raw_text |-> text,
         word_count |-> word_count(text)]

(***************************************************************************)
(* main.rs -- BrainState and the RwLock that guards it.                    *)
(***************************************************************************)
DefaultThreshold == 95 * (ConfScale \div 100)

BrainState_new ==
    /\ confidence_threshold = DefaultThreshold
    /\ network_allowed = FALSE
    /\ emergency_triggered = FALSE
    /\ store_intents = {}

\* tokio::sync::RwLock: read() is granted while no write guard is out,
\* write() while no guard at all is out
CanRead  == write_holders = {}

\* a write guard granted while read guards are out
CanWrite_ignores_readers == write_holders = {}

CanWrite == write_holders = {} /\ read_holders = {}

\* every task taking the shared guard
LockMode_all_read(m) == "read"

\* which guard each task takes: state.write() in handle_set_threshold,
\* handle_emergency_wipe and the signal task, state.read() everywhere else
LockMode(m) ==
    IF m \in {"set_threshold", "emergency_wipe", "signal"} THEN "write" ELSE "read"

CanAcquire(m) == IF LockMode(m) = "write" THEN CanWrite ELSE CanRead

Acquire(t, m) ==
    /\ CanAcquire(m)
    /\ read_holders' = IF LockMode(m) = "read" THEN read_holders \cup {t}
                        ELSE read_holders
    /\ write_holders' = IF LockMode(m) = "write" THEN write_holders \cup {t}
                         ELSE write_holders

Release(t) ==
    /\ read_holders' = read_holders \ {t}
    /\ write_holders' = write_holders \ {t}

Running == main_pc # "exit"

(***************************************************************************)
(* api.rs -- requests.  A request is one line of JSON; a JSON field is     *)
(* absent (<< >>) or present (<<v>>).  A field of the wrong JSON type is   *)
(* read like an absent one by as_str / as_f64, so only the confirmed flag, *)
(* which as_bool reads, keeps a "string" case.                             *)
(***************************************************************************)
RpcTexts == { <<"wipe", "all", "data", "immediately">>,
              <<"wipe", "all", "data">>,
              <<"xyz", "abc", "123">> }

\* an intent id that no parse_intent has produced
UnknownIds == {0}

Thresholds == { 0, DefaultThreshold, ConfScale,
                15 * (ConfScale \div 10), 0 - (ConfScale \div 10) }

ConfirmedValues == {"absent", "true", "false", "string"}

\* the ids a client can send: those it was given, and a made-up one
KnownIds == UnknownIds \cup DOMAIN returned

Requests ==
    [method : {"malformed", "no_such_method", "get_status",
               "emergency_wipe", "get_analytics"}, params : {FALSE}]
    \cup [method : {"parse_intent", "authorize", "route_task", "set_threshold"},
          params : {FALSE}]
    \cup [method : {"parse_intent"}, params : {TRUE},
          text : {<< >>} \cup {<<t>> : t \in RpcTexts}]
    \cup [method : {"authorize"}, params : {TRUE},
          intent_id : {<< >>} \cup {<<i>> : i \in KnownIds},
          confirmed : ConfirmedValues]
    \cup [method : {"route_task"}, params : {TRUE},
          intent_id : {<< >>} \cup {<<i>> : i \in KnownIds},
          agent : {<< >>, <<"a1">>}]
    \cup [method : {"set_threshold"}, params : {TRUE},
          threshold : {<< >>} \cup {<<v>> : v \in Thresholds}]

\* a response carries the request it answers; cause names the failed check
RpcError(r, code, cause) ==
    [method |-> r.method, ok |-> FALSE, req |-> r, code |-> code,
     cause |-> cause]

NoResponse == [method |-> None, ok |-> FALSE]

\* a handler that returns before it takes the lock: process_request wraps the
\* result and handle_connection writes it
Reply(c, response) ==
    /\ resp' = [resp EXCEPT ![c] = response]
    /\ UNCHANGED <<confidence_threshold, network_allowed, emergency_triggered,
                   store_intents, read_holders, write_holders, main_pc,
                   signal_pc, pc, local, next_id, returned, confirmed>>

\* a handler that has taken the lock and built its result; the guard lives
\* until the handler returns.  The client has read the previous response
\* before it sent this request.
Hold(c, m, result) ==
    /\ Acquire(c, m)
    /\ pc' = [pc EXCEPT ![c] = "locked"]
    /\ local' = [local EXCEPT ![c] = result]
    /\ resp' = [resp EXCEPT ![c] = NoResponse]

Ready(c, r, m) == Running /\ pc[c] = "idle" /\ r.method = m

ParamsMissing == 0 - 32602
MethodNotFound == 0 - 32601
ParseError == 0 - 32700

\* the gate with the boundary on the wrong side
requires_confirmation_le(confidence, threshold) == confidence <= threshold

\* the gate: intent.confidence < state.confidence_threshold
requires_confirmation(confidence, threshold) == confidence < threshold

\* a failed log write turned into a failed request
log_intent_fatal(result, log_ok) ==
    IF log_ok THEN result ELSE [result EXCEPT !.ok = FALSE]

\* if let Err(e) = state.store.log_intent(&intent) { warn!(..) }: the result
\* the handler goes on to build does not depend on the outcome
log_intent_warned(result, log_ok) == result

handle_parse_intent(c, r) ==
    /\ Ready(c, r, "parse_intent")
    /\ \/ /\ ~r.params
          /\ Reply(c, RpcError(r, ParamsMissing, "params"))
       \/ /\ r.params /\ r.text = << >>
          /\ Reply(c, RpcError(r, ParamsMissing, "text"))
       \/ /\ r.params /\ r.text # << >>
          /\ next_id < MaxIntents
          /\ LET intent == parse(r.text[1])
                 id     == next_id + 1
             IN  \E log_ok \in BOOLEAN :
                   /\ Hold(c, "parse_intent",
                         log_intent_warned(
                         [method |-> "parse_intent", ok |-> TRUE, req |-> r,
                          intent_id |-> id,
                          category |-> intent.category,
                          action |-> intent.action,
                          confidence |-> intent.confidence,
                          requires_confirmation |->
                              requires_confirmation(intent.confidence,
                                                    confidence_threshold),
                          threshold_read |-> confidence_threshold,
                          logged |-> log_ok], log_ok))
                   /\ store_intents' = IF log_ok THEN store_intents \cup {id}
                                        ELSE store_intents
                   /\ next_id' = id
          /\ UNCHANGED <<confidence_threshold, network_allowed,
                         emergency_triggered, main_pc, signal_pc,
                         returned, confirmed>>

\* a missing or non-boolean flag read as consent
user_confirmed_default_true(r) == r.confirmed # "false"

\* params.get("confirmed").and_then(as_bool).unwrap_or(false)
user_confirmed(r) == r.confirmed = "true"

handle_authorize(c, r) ==
    /\ Ready(c, r, "authorize")
    /\ \/ /\ ~r.params
          /\ Reply(c, RpcError(r, ParamsMissing, "params"))
       \/ /\ r.params /\ r.intent_id = << >>
          /\ Reply(c, RpcError(r, ParamsMissing, "intent_id"))
       \/ /\ r.params /\ r.intent_id # << >>
          /\ Hold(c, "authorize",
                 [method |-> "authorize", ok |-> TRUE, req |-> r,
                  intent_id |-> r.intent_id[1],
                  authorized |-> user_confirmed(r),
                  reason |-> IF user_confirmed(r) THEN "User confirmed"
                             ELSE "Awaiting user confirmation"])
          /\ UNCHANGED <<confidence_threshold, network_allowed,
                         emergency_triggered, store_intents, main_pc,
                         signal_pc, next_id, returned, confirmed>>

handle_route_task(c, r) ==
    /\ Ready(c, r, "route_task")
    /\ \/ /\ ~r.params
          /\ Reply(c, RpcError(r, ParamsMissing, "params"))
       \/ /\ r.params /\ r.intent_id = << >>
          /\ Reply(c, RpcError(r, ParamsMissing, "intent_id"))
       \/ /\ r.params /\ r.intent_id # << >>
          /\ Reply(c, [method |-> "route_task", ok |-> TRUE, req |-> r,
                       intent_id |-> r.intent_id[1],
                       routed_to |-> IF r.agent = << >> THEN "default"
                                     ELSE r.agent[1],
                       status |-> "queued"])

handle_get_status(c, r) ==
    /\ Ready(c, r, "get_status")
    /\ Hold(c, "get_status",
           [method |-> "get_status", ok |-> TRUE, req |-> r,
            confidence_threshold |-> confidence_threshold,
            network_allowed |-> network_allowed,
            uptime_secs |-> 0, pending_tasks |-> 0])
    /\ UNCHANGED <<confidence_threshold, network_allowed, emergency_triggered,
                   store_intents, main_pc, signal_pc, next_id, returned,
                   confirmed>>

\* a range check without the upper end
threshold_nonnegative(v) == 0 <= v

\* (0.0..=1.0).contains(&threshold)
threshold_in_range(v) == 0 <= v /\ v <= ConfScale

handle_set_threshold(c, r) ==
    /\ Ready(c, r, "set_threshold")
    /\ \/ /\ ~r.params
          /\ Reply(c, RpcError(r, ParamsMissing, "params"))
       \/ /\ r.params /\ r.threshold = << >>
          /\ Reply(c, RpcError(r, ParamsMissing, "threshold"))
       \/ /\ r.params /\ r.threshold # << >>
          /\ ~threshold_in_range(r.threshold[1])
          /\ Reply(c, RpcError(r, ParamsMissing, "range"))
       \/ /\ r.params /\ r.threshold # << >>
          /\ threshold_in_range(r.threshold[1])
          /\ Hold(c, "set_threshold",
                 [method |-> "set_threshold", ok |-> TRUE, req |-> r,
                  success |-> TRUE, threshold |-> r.threshold[1]])
          /\ confidence_threshold' = r.threshold[1]
          /\ UNCHANGED <<network_allowed, emergency_triggered, store_intents,
                         main_pc, signal_pc, next_id, returned,
                         confirmed>>

\* SecureStore::secure_wipe: DELETE FROM intents; DELETE FROM audit_log; VACUUM
\* as one batch, which may fail before or after the rows are gone
secure_wipe(outcome) == IF outcome = "err_before" THEN store_intents ELSE {}

handle_emergency_wipe(c, r) ==
    /\ Ready(c, r, "emergency_wipe")
    /\ Hold(c, "emergency_wipe",
           [method |-> "emergency_wipe", ok |-> TRUE, req |-> r,
            status |-> "wipe_initiated"])
    /\ emergency_triggered' = TRUE
    /\ \E outcome \in {"ok", "err_before", "err_after"} :
          store_intents' = secure_wipe(outcome)
    /\ UNCHANGED <<confidence_threshold, network_allowed, main_pc, signal_pc, next_id, returned, confirmed>>

\* SecureStore::get_stats().unwrap_or_default()
handle_get_analytics(c, r) ==
    /\ Ready(c, r, "get_analytics")
    /\ \E stats_ok \in BOOLEAN :
          Hold(c, "get_analytics",
               [method |-> "get_analytics", ok |-> TRUE, req |-> r,
                total_intents |-> IF stats_ok THEN Cardinality(store_intents)
                                  ELSE 0])
    /\ UNCHANGED <<confidence_threshold, network_allowed, emergency_triggered,
                   store_intents, main_pc, signal_pc, next_id, returned,
                   confirmed>>

\* process_request: a line that is no request, or names no method
process_request_reject(c, r) ==
    /\ Running /\ pc[c] = "idle"
    /\ \/ /\ r.method = "malformed"
          /\ Reply(c, RpcError(r, ParseError, "json"))
       \/ /\ r.method = "no_such_method"
          /\ Reply(c, RpcError(r, MethodNotFound, "method"))

\* the handler returns: its guard is dropped, process_request wraps the result
\* and handle_connection writes the response line
handle_connection_write(c) ==
    /\ Running /\ pc[c] = "locked"
    /\ Release(c)
    /\ pc' = [pc EXCEPT ![c] = "idle"]
    /\ resp' = [resp EXCEPT ![c] = local[c]]
    /\ local' = [local EXCEPT ![c] = NoResponse]
    /\ returned' = IF local[c].method = "parse_intent"
                    THEN returned @@ (local[c].intent_id :>
                           [requires_confirmation |->
                                local[c].requires_confirmation])
                    ELSE returned
    /\ confirmed' = IF local[c].method = "authorize" /\ local[c].authorized
                     THEN confirmed \cup {local[c].intent_id}
                     ELSE confirmed
    /\ UNCHANGED <<confidence_threshold, network_allowed, emergency_triggered,
                   store_intents, main_pc, signal_pc, next_id>>

(***************************************************************************)
(* main.rs -- the accept loop and the shutdown-signal task.                *)
(***************************************************************************)
\* listener.accept() returns a stream: a task is spawned for it
accept_ok(c) ==
    /\ main_pc = "accept" /\ pc[c] = "closed"
    /\ pc' = [pc EXCEPT ![c] = "idle"]
    /\ main_pc' = "check"
    /\ UNCHANGED <<confidence_threshold, network_allowed, emergency_triggered,
                   store_intents, read_holders, write_holders, signal_pc,
                   local, resp, next_id, returned, confirmed>>

\* listener.accept() returns an error, which is logged
accept_err ==
    /\ main_pc = "accept"
    /\ main_pc' = "check"
    /\ UNCHANGED <<confidence_threshold, network_allowed, emergency_triggered,
                   store_intents, read_holders, write_holders, signal_pc, pc,
                   local, resp, next_id, returned, confirmed>>

\* a loop that goes back to accept() without looking at the flag
check_emergency_ignored ==
    /\ main_pc = "check"
    /\ CanRead
    /\ main_pc' = "accept"
    /\ UNCHANGED <<confidence_threshold, network_allowed, emergency_triggered,
                   store_intents, read_holders, write_holders, signal_pc, pc,
                   local, resp, next_id, returned, confirmed>>

\* if state.read().await.emergency_triggered { break; }
check_emergency ==
    /\ main_pc = "check"
    /\ CanRead
    /\ main_pc' = IF emergency_triggered THEN "exit" ELSE "accept"
    /\ UNCHANGED <<confidence_threshold, network_allowed, emergency_triggered,
                   store_intents, read_holders, write_holders, signal_pc, pc,
                   local, resp, next_id, returned, confirmed>>

\* ctrl_c() resolves and the task takes the write guard
signal_received ==
    /\ Running /\ signal_pc = "waiting"
    /\ Acquire("signal", "signal")
    /\ signal_pc' = "locked"
    /\ UNCHANGED <<confidence_threshold, network_allowed, emergency_triggered,
                   store_intents, main_pc, pc, local, resp, next_id, returned,
                   confirmed>>

\* s.emergency_triggered = true; the guard is dropped as the task ends
signal_set_emergency ==
    /\ Running /\ signal_pc = "locked"
    /\ emergency_triggered' = TRUE
    /\ Release("signal")
    /\ signal_pc' = "done"
    /\ UNCHANGED <<confidence_threshold, network_allowed, store_intents,
                   main_pc, pc, local, resp, next_id, returned, confirmed>>

Init ==
    /\ BrainState_new
    /\ read_holders = {} /\ write_holders = {}
    /\ main_pc = "accept" /\ signal_pc = "waiting"
    /\ pc = [c \in Conns |-> "closed"]
    /\ local = [c \in Conns |-> NoResponse]
    /\ resp = [c \in Conns |-> NoResponse]
    /\ next_id = 0
    /\ returned = << >>
    /\ confirmed = {}
    /\ agents = << >>
    /\ routing_cache = << >>
    /\ tournament_history = << >>
    /\ perf_updates = 0
    /\ last = [op |-> None]

Serve(c, r) ==
    \/ handle_parse_intent(c, r)
    \/ handle_authorize(c, r)
    \/ handle_route_task(c, r)
    \/ handle_get_status(c, r)
    \/ handle_set_threshold(c, r)
    \/ handle_emergency_wipe(c, r)
    \/ handle_get_analytics(c, r)
    \/ process_request_reject(c, r)

\* the requests of the concurrent specification: each handler that takes the
\* lock, with its early returns
ConcRequests ==
    [method : {"get_status", "emergency_wipe", "parse_intent", "set_threshold"},
     params : {FALSE}]
    \cup [method : {"parse_intent"}, params : {TRUE},
          text : {<< >>, << <<"wipe", "all", "data", "immediately">> >>}]
    \cup [method : {"set_threshold"}, params : {TRUE},
          threshold : {<< >>, <<0>>, <<ConfScale>>, <<15 * (ConfScale \div 10)>>}]

ServeLocked(c, r) ==
    \/ handle_parse_intent(c, r)
    \/ handle_get_status(c, r)
    \/ handle_set_threshold(c, r)
    \/ handle_emergency_wipe(c, r)

\* one client, every request
Next ==
    \/ accept_ok("c1") /\ UNCHANGED swarm_vars
    \/ accept_err /\ UNCHANGED swarm_vars
    \/ check_emergency /\ UNCHANGED swarm_vars
    \/ \E r \in Requests : Serve("c1", r) /\ UNCHANGED swarm_vars
    \/ handle_connection_write("c1") /\ UNCHANGED swarm_vars

Spec == Init /\ [][Next]_vars

\* concurrent clients and the shutdown signal
NextConc ==
    \/ \E c \in Conns : accept_ok(c) /\ UNCHANGED swarm_vars
    \/ accept_err /\ UNCHANGED swarm_vars
    \/ check_emergency /\ UNCHANGED swarm_vars
    \/ signal_received /\ UNCHANGED swarm_vars
    \/ signal_set_emergency /\ UNCHANGED swarm_vars
    \/ \E c \in Conns : \E r \in ConcRequests :
          ServeLocked(c, r) /\ UNCHANGED swarm_vars
    \/ \E c \in Conns : handle_connection_write(c) /\ UNCHANGED swarm_vars

ConcSpec == Init /\ [][NextConc]_vars

(***************************************************************************)
(* agent_swarm.rs -- AgentNode and AgentSwarm.                             *)
(* success_rate and confidence_score are in units of 1e-5, critique and    *)
(* voting scores in units of 1e-2, times in milliseconds.                  *)
(***************************************************************************)
RateScale == 100 * 1000

Uuids == {"u1", "u2"}
Uuid_rank == [id \in Uuids |-> IF id = "u1" THEN 1 ELSE 1 + 1]
CapabilitySets == { {"CodeGeneration"}, {"NaturalLanguage", "Reasoning"} }
TaskTypes == {"code", "summarize"}
Latencies == {1005}
CritiqueScores == {20, 80}

\* Uuid::new_v4(): an id no registered agent has; ids are interchangeable, so
\* the unused ones are handed out in one order
new_v4 == CHOOSE id \in Uuids \ DOMAIN agents :
            \A other \in Uuids \ DOMAIN agents : Uuid_rank[id] <= Uuid_rank[other]

AgentNode_new(caps) ==
    [capabilities |-> caps,
     confidence_score |-> RateScale \div 2,
     avg_response_time_ms |-> 0,
     success_rate |-> 0]

\* an update that leaves confidence_score alone
update_performance_keeps_confidence(node, success, response_time_ms) ==
    LET rate == ((IF success THEN RateScale ELSE 0) + 9 * node.success_rate) \div 10
    IN  [node EXCEPT
            !.success_rate = rate,
            !.avg_response_time_ms =
                IF node.avg_response_time_ms = 0 THEN response_time_ms
                ELSE (node.avg_response_time_ms * 9 + response_time_ms) \div 10]

\* an update that records a failure whatever it is told
update_performance_as_failure(node, success, response_time_ms) ==
    LET rate == (9 * node.success_rate) \div 10
    IN  [node EXCEPT
            !.success_rate = rate,
            !.confidence_score = rate,
            !.avg_response_time_ms =
                IF node.avg_response_time_ms = 0 THEN response_time_ms
                ELSE (node.avg_response_time_ms * 9 + response_time_ms) \div 10]

\* AgentNode::update_performance, alpha = 0.1
update_performance(node, success, response_time_ms) ==
    LET rate == ((IF success THEN RateScale ELSE 0) + 9 * node.success_rate) \div 10
    IN  [node EXCEPT
            !.success_rate = rate,
            !.confidence_score = rate,
            !.avg_response_time_ms =
                IF node.avg_response_time_ms = 0 THEN response_time_ms
                ELSE (node.avg_response_time_ms * 9 + response_time_ms) \div 10]

\* a lookup that refuses the task types it does not know
is_capable_closed(node, task_type) ==
    CASE task_type = "code"      -> "CodeGeneration" \in node.capabilities
      [] task_type = "text"      -> "NaturalLanguage" \in node.capabilities
      [] task_type = "data"      -> "DataAnalysis" \in node.capabilities
      [] task_type = "image"     -> "ImageGeneration" \in node.capabilities
      [] task_type = "reasoning" -> "Reasoning" \in node.capabilities
      [] task_type = "planning"  -> "Planning" \in node.capabilities
      [] OTHER                   -> FALSE

\* AgentSwarm::is_capable
is_capable(node, task_type) ==
    CASE task_type = "code"      -> "CodeGeneration" \in node.capabilities
      [] task_type = "text"      -> "NaturalLanguage" \in node.capabilities
      [] task_type = "data"      -> "DataAnalysis" \in node.capabilities
      [] task_type = "image"     -> "ImageGeneration" \in node.capabilities
      [] task_type = "reasoning" -> "Reasoning" \in node.capabilities
      [] task_type = "planning"  -> "Planning" \in node.capabilities
      [] OTHER                   -> TRUE

\* every registered agent taken as capable
all_agents(task_type) == DOMAIN agents

capable_agents(task_type) ==
    {a \in DOMAIN agents : is_capable(agents[a], task_type)}

\* an iteration that may visit an element twice and skip another
IterationsWithRepeats(S) == [1..Cardinality(S) -> S]

\* the orders in which a HashMap may hand out the elements of S
IterationOrders(S) ==
    {f \in [1..Cardinality(S) -> S] : \A i, j \in DOMAIN f : f[i] = f[j] => i = j}

\* Iterator::max_by: the last of the maximal elements; key maps every element
\* of the non-empty sequence to a number
max_by(seq, key) ==
    seq[CHOOSE i \in DOMAIN seq :
            /\ \A j \in DOMAIN seq : key[seq[j]] <= key[seq[i]]
            /\ \A j \in DOMAIN seq : j > i => key[seq[j]] < key[seq[i]]]

RECURSIVE SumOver(_, _)
SumOver(S, f) ==
    IF S = {} THEN 0
    ELSE LET x == CHOOSE y \in S : TRUE IN f[x] + SumOver(S \ {x}, f)

\* confidence_score * (1.0 - avg_response_time_ms / 10000.0), times 1e9
routing_score(node) == node.confidence_score * (10000 - node.avg_response_time_ms)

\* a route that skips the cache
route_task_no_cache(task_type, order) ==
    IF order = << >> THEN << >>
    ELSE <<max_by(order, [a \in DOMAIN agents |-> routing_score(agents[a])])>>

\* a route that takes the first capable agent
route_task_first_capable(task_type, order) ==
    IF task_type \in DOMAIN routing_cache THEN <<routing_cache[task_type]>>
    ELSE IF order = << >> THEN << >>
    ELSE <<order[1]>>

\* AgentSwarm::route_task; order is the iteration order of the capable agents.
\* << >> is None, <<id>> is Some(id).
route_task(task_type, order) ==
    IF task_type \in DOMAIN routing_cache THEN <<routing_cache[task_type]>>
    ELSE IF order = << >> THEN << >>
    ELSE <<max_by(order, [a \in DOMAIN agents |-> routing_score(agents[a])])>>

\* AgentSwarm::register_agent(AgentNode::new(..)) with a fresh Uuid
register_agent(id, caps) ==
    /\ id \in Uuids \ DOMAIN agents
    /\ agents' = (id :> AgentNode_new(caps)) @@ agents
    /\ last' = [op |-> "register_agent"]
    /\ UNCHANGED <<routing_cache, tournament_history, perf_updates>>

call_route_task(task_type, order) ==
    /\ last' = [op |-> "route_task", task_type |-> task_type,
                ret |-> route_task(task_type, order)]
    /\ UNCHANGED <<agents, routing_cache, tournament_history, perf_updates>>

\* the sample variance, which divides by n - 1
sample_variance(scores) ==
    LET n     == Cardinality(DOMAIN scores)
        total == SumOver(DOMAIN scores, scores)
        sq    == SumOver(DOMAIN scores, [a \in DOMAIN scores |-> scores[a] * scores[a]])
    IN  [num |-> n * sq - total * total, den |-> n * (n - 1)]

\* population variance of the voting scores as the fraction num / den
variance(scores) ==
    LET n     == Cardinality(DOMAIN scores)
        total == SumOver(DOMAIN scores, scores)
        sq    == SumOver(DOMAIN scores, [a \in DOMAIN scores |-> scores[a] * scores[a]])
    IN  [num |-> n * sq - total * total, den |-> n * n]

\* 0.7 of `if consensus_level > 0.7`, in units of 1e-2
ConsensusCut == 70

\* the cache written at the cut as well
consensus_at_least(v, cut) == v.num <= (100 - cut) * (100 - cut) * v.den

\* consensus_level > cut, where consensus_level = 1.0 - variance.sqrt():
\* sqrt(v) < 1 - cut, squared
consensus_exceeds(v, cut) == v.num < (100 - cut) * (100 - cut) * v.den

\* invoke_agent and critique_response stand for calls to external models and
\* return a Result; their placeholder bodies return Ok(..) and Ok(0.8), which
\* are among the outcomes drawn here.
\* What the calls a tournament makes come to: either the first call that
\* returns Err, or, when every call returns Ok, the iteration order of the
\* capable agents (order), the time measured around each invocation (elapsed)
\* and the score o's critique gives a's response (critique[<<o, a>>])
CritiquePairs(S) == {p \in S \X S : p[1] # p[2]}

Outcomes(S) ==
    {[fail |-> "invoke"]}
    \cup {[fail |-> "critique"] : x \in {S} \ {{}}}
    \cup {[fail |-> "none", order |-> o, elapsed |-> e, critique |-> c] :
            o \in IterationOrders(S),
            e \in [S -> Latencies],
            c \in [CritiquePairs(S) -> CritiqueScores]}

\* AgentSwarm::tournament
tournament(task_type, outcome) ==
    LET capable == capable_agents(task_type)
        order == outcome.order
        n == Len(order)
        responses ==
            [i \in 1..n |->
                [agent_id |-> order[i],
                 confidence |-> agents[order[i]].confidence_score,
                 response_time_ms |-> outcome.elapsed[order[i]]]]
        ids == {responses[i].agent_id : i \in 1..n}
        voting_scores ==
            [a \in ids |->
                LET score == SumOver(ids \ {a},
                                 [o \in ids \ {a} |-> outcome.critique[<<o, a>>]])
                IN  IF n > 1 THEN score \div (n - 1) ELSE score]
        winner == max_by(responses,
                         [r \in {responses[i] : i \in 1..n} |->
                             voting_scores[r.agent_id]])
        consensus_level == variance(voting_scores)
        result == [winner |-> winner,
                   all_responses |-> responses,
                   voting_scores |-> voting_scores,
                   consensus_level |-> consensus_level]
    IN
    /\ Len(tournament_history) < MaxHistory
    /\ IF capable = {} THEN
          /\ last' = [op |-> "tournament", task_type |-> task_type,
                      ok |-> FALSE, error |-> "No capable agents found",
                      failed_call |-> "none"]
          /\ UNCHANGED <<agents, routing_cache, tournament_history, perf_updates>>
       ELSE IF outcome.fail # "none" THEN
          /\ last' = [op |-> "tournament", task_type |-> task_type,
                      ok |-> FALSE, error |-> outcome.fail,
                      failed_call |-> outcome.fail]
          /\ UNCHANGED <<agents, routing_cache, tournament_history, perf_updates>>
       ELSE
          /\ routing_cache' =
                IF consensus_exceeds(consensus_level, ConsensusCut)
                THEN (task_type :> winner.agent_id) @@ routing_cache
                ELSE routing_cache
          /\ agents' = [agents EXCEPT ![winner.agent_id] =
                           update_performance(@, TRUE, winner.response_time_ms)]
          /\ tournament_history' = Append(tournament_history, result)
          /\ last' = [op |-> "tournament", task_type |-> task_type,
                      ok |-> TRUE, result |-> result, failed_call |-> "none"]
          /\ UNCHANGED perf_updates

NextSwarm ==
    \/ \E caps \in CapabilitySets :
          /\ Uuids \ DOMAIN agents # {}
          /\ register_agent(new_v4, caps)
          /\ UNCHANGED rpc_vars
    \/ \E task_type \in TaskTypes :
          \E order \in IterationOrders(capable_agents(task_type)) :
            call_route_task(task_type, order) /\ UNCHANGED rpc_vars
    \/ \E task_type \in TaskTypes :
          \E outcome \in Outcomes(capable_agents(task_type)) :
            tournament(task_type, outcome) /\ UNCHANGED rpc_vars

SwarmSpec == Init /\ [][NextSwarm]_vars

(***************************************************************************)
(* AgentNode::update_performance on its own: a registered agent, fresh or  *)
(* with earlier updates behind it, and the updates a caller applies.       *)
(***************************************************************************)
SeedRates == {0, 19 * 1000, 50 * 1000, 99 * 1000}
SeedTimes == {0, 1000}
UpdateLatencies == {0, 15, 1005}

\* a node as AgentNode::new leaves it, or as earlier updates left it
PerfNodes ==
    {AgentNode_new({"CodeGeneration"})}
    \cup {[capabilities |-> {"CodeGeneration"},
           confidence_score |-> r,
           avg_response_time_ms |-> t,
           success_rate |-> r] : r \in SeedRates, t \in SeedTimes}

PerfInit ==
    /\ BrainState_new
    /\ read_holders = {} /\ write_holders = {}
    /\ main_pc = "accept" /\ signal_pc = "waiting"
    /\ pc = [c \in Conns |-> "closed"]
    /\ local = [c \in Conns |-> NoResponse]
    /\ resp = [c \in Conns |-> NoResponse]
    /\ next_id = 0
    /\ returned = << >>
    /\ confirmed = {}
    /\ \E node \in PerfNodes : agents = ("u1" :> node)
    /\ routing_cache = << >>
    /\ tournament_history = << >>
    /\ perf_updates = 0
    /\ last = [op |-> None]

\* agent.update_performance(success, response_time_ms) on a registered agent
update_agent(id, success, response_time_ms) ==
    /\ id \in DOMAIN agents
    /\ perf_updates < MaxUpdates
    /\ agents' = [agents EXCEPT
                     ![id] = update_performance(@, success, response_time_ms)]
    /\ perf_updates' = perf_updates + 1
    /\ last' = [op |-> "update_performance", id |-> id, success |-> success,
                response_time_ms |-> response_time_ms, before |-> agents[id]]
    /\ UNCHANGED <<routing_cache, tournament_history>>

PerfNext ==
    \E id \in DOMAIN agents, success \in BOOLEAN, ms \in UpdateLatencies :
        update_agent(id, success, ms) /\ UNCHANGED rpc_vars

PerfSpec == PerfInit /\ [][PerfNext]_vars

(***************************************************************************)
(* The f64 arithmetic of a tournament's voting and consensus, for the case *)
(* that every critique call returns the same score.  An f64 in [0.5, 8) or *)
(* 0.0 is the integer k = value * 2^53 held in two limbs, k = hi * 2^27 +   *)
(* lo; every operation rounds to nearest, ties to even, as IEEE 754 does.  *)
(***************************************************************************)
Limb == 128 * 1024 * 1024

F64_zero == [hi |-> 0, lo |-> 0]
F64_one  == [hi |-> Limb \div 2, lo |-> 0]

\* the f64 nearest to t / 10
F64_tenths(t) ==
    CASE t = 5  -> [hi |-> 33554432, lo |-> 0]
      [] t = 6  -> [hi |-> 40265318, lo |-> 53687091]
      [] t = 7  -> [hi |-> 46976204, lo |-> 107374182]
      [] t = 8  -> [hi |-> 53687091, lo |-> 26843546]
      [] t = 9  -> [hi |-> 60397977, lo |-> 80530637]
      [] t = 10 -> F64_one

\* the scores a critique may return; critique_response returns 0.8
EqualCritiques == {F64_tenths(t) : t \in 5..10}

\* the spacing of the f64 values around k, in units of 2^-53
Grid(k) ==
    IF k.hi < Limb \div 2 THEN 1
    ELSE IF k.hi < Limb THEN 2
    ELSE IF k.hi < 2 * Limb THEN 4
    ELSE 8

f64_next(k, g) ==
    IF k.lo + g = Limb THEN [hi |-> k.hi + 1, lo |-> 0]
    ELSE [hi |-> k.hi, lo |-> k.lo + g]

\* the f64 nearest to the exact value k
f64_round(k) ==
    LET g    == Grid(k)
        r    == k.lo % g
        down == [hi |-> k.hi, lo |-> k.lo - r]
        up   == 2 * r > g \/ (2 * r = g /\ (k.lo \div g) % 2 = 1)
    IN  IF r = 0 THEN k ELSE IF up THEN f64_next(down, g) ELSE down

\* a + b
f64_add(a, b) ==
    LET lo == a.lo + b.lo
    IN  f64_round([hi |-> a.hi + b.hi + lo \div Limb, lo |-> lo % Limb])

\* a / d for a count d; the quotient is at most 1.0
f64_div(a, d) ==
    LET rest == (a.hi % d) * Limb + a.lo
        q    == [hi |-> a.hi \div d, lo |-> rest \div d]
        r    == rest % d
        up   == 2 * r > d \/ (2 * r = d /\ q.lo % 2 = 1)
    IN  IF up THEN f64_next(q, 1) ELSE q

\* a - b for two values less than 2^-22 apart, in units of 2^-53 (exact)
f64_sub(a, b) == (a.hi - b.hi) * Limb + (a.lo - b.lo)

\* score += critique_score, once for each other response
RECURSIVE f64_add_times(_, _, _)
f64_add_times(acc, x, times) ==
    IF times = 0 THEN acc ELSE f64_add_times(f64_add(acc, x), x, times - 1)

\* scores.iter().sum::<f64>()
RECURSIVE f64_sum(_, _)
f64_sum(scores, acc) ==
    IF scores = << >> THEN acc
    ELSE f64_sum(Tail(scores), f64_add(acc, Head(scores)))

RECURSIVE int_sum(_)
int_sum(xs) == IF xs = << >> THEN 0 ELSE Head(xs) + int_sum(Tail(xs))

\* the critique loop and the normalisation of each response's score
equal_voting_scores(n, critique_score) ==
    LET score == f64_add_times(F64_zero, critique_score, n - 1)
    IN  [i \in 1..n |-> IF n > 1 THEN f64_div(score, n - 1) ELSE score]

\* scores.iter().sum::<f64>() / scores.len() as f64
f64_mean(scores) == f64_div(f64_sum(scores, F64_zero), Len(scores))

\* the sum of (s - mean).powi(2) divided by scores.len(), in units of 2^-106;
\* the squares and their sum are small integers, which f64 holds exactly, and
\* with equal scores the sum is a multiple of their number
f64_variance(scores, mean) ==
    int_sum([i \in DOMAIN scores |->
                f64_sub(scores[i], mean) * f64_sub(scores[i], mean)])
    \div Len(scores)

\* variance.sqrt() of a square, in units of 2^-53
f64_sqrt(v) == CHOOSE r \in 0..v : r * r = v

\* 1.0 - x for 0 <= x < 2^-26 in units of 2^-53: exact, as 1.0 - x is an f64
f64_one_minus(x) ==
    IF x = 0 THEN F64_one ELSE [hi |-> F64_one.hi - 1, lo |-> Limb - x]

ConsensusInit ==
    /\ BrainState_new
    /\ read_holders = {} /\ write_holders = {}
    /\ main_pc = "accept" /\ signal_pc = "waiting"
    /\ pc = [c \in Conns |-> "closed"]
    /\ local = [c \in Conns |-> NoResponse]
    /\ resp = [c \in Conns |-> NoResponse]
    /\ next_id = 0
    /\ returned = << >>
    /\ confirmed = {}
    /\ agents = << >>
    /\ routing_cache = << >>
    /\ tournament_history = << >>
    /\ perf_updates = 0
    /\ \E n \in 1..MaxVoters, c \in EqualCritiques :
          last = [op |-> "responses", n |-> n, critique_score |-> c]

ConsensusStep(from, record) ==
    /\ last.op = from
    /\ last' = record
    /\ UNCHANGED <<rpc_vars, agents, routing_cache, tournament_history,
                   perf_updates>>

\* phase 2 of tournament: the critique loop
critique_phase ==
    ConsensusStep("responses",
        [op |-> "voting_scores", n |-> last.n,
         critique_score |-> last.critique_score,
         voting_scores |-> equal_voting_scores(last.n, last.critique_score)])

take_mean ==
    ConsensusStep("voting_scores",
        [op |-> "mean", n |-> last.n, critique_score |-> last.critique_score,
         voting_scores |-> last.voting_scores,
         mean |-> f64_mean(last.voting_scores)])

take_variance ==
    ConsensusStep("mean",
        [op |-> "variance", n |-> last.n,
         critique_score |-> last.critique_score,
         voting_scores |-> last.voting_scores, mean |-> last.mean,
         variance |-> f64_variance(last.voting_scores, last.mean)])

take_consensus_level ==
    ConsensusStep("variance",
        [op |-> "consensus_level", n |-> last.n,
         critique_score |-> last.critique_score,
         voting_scores |-> last.voting_scores, mean |-> last.mean,
         variance |-> last.variance,
         consensus_level |-> f64_one_minus(f64_sqrt(last.variance))])

ConsensusNext ==
    \/ critique_phase
    \/ take_mean
    \/ take_variance
    \/ take_consensus_level

ConsensusSpec == ConsensusInit /\ [][ConsensusNext]_vars

(***************************************************************************)
(* intent.rs -- the classifier on its own.  IntentParser::new().parse is   *)
(* applied to texts while a client changes the threshold; last.calls keeps *)
(* what each application returned and the threshold in force at the time.  *)
(***************************************************************************)
ClassifyTexts ==
    { << >>,
      <<"xyz", "abc", "123">>,
      <<"show", "disk">>,
      <<"wipe", "all", "data">>,
      <<"git", "commit", "git", "commit">>,
      <<"ask", "webapi", "to", "list", "it">>,
      <<"shutdown", "ask", "test", "lock">>,
      <<"git", "commit", "wipe", "delete", "erase">> }

ThresholdRequests ==
    [method : {"set_threshold"}, params : {TRUE},
     threshold : {<<0>>, <<15 * (ConfScale \div 10)>>}]

Calls == IF last.op = "classify" THEN last.calls ELSE << >>

\* let intent = IntentParser::new().parse(text): a fresh parser, the text, and
\* nothing of the shared state
classify(text) ==
    /\ Len(Calls) < MaxCalls
    /\ last' = [op |-> "classify",
                calls |-> Append(Calls,
                             [text |-> text, intent |-> parse(text),
                              threshold |-> confidence_threshold])]
    /\ UNCHANGED <<rpc_vars, agents, routing_cache, tournament_history,
                   perf_updates>>

ClassifyNext ==
    \/ accept_ok("c1") /\ UNCHANGED swarm_vars
    \/ \E r \in ThresholdRequests :
          handle_set_threshold("c1", r) /\ UNCHANGED swarm_vars
    \/ handle_connection_write("c1") /\ UNCHANGED swarm_vars
    \/ \E text \in ClassifyTexts : classify(text)

ClassifySpec == Init /\ [][ClassifyNext]_vars

(***************************************************************************)
(* agent_swarm.rs -- AgentSwarm::discussion.  A text is known by who wrote *)
(* it, in which round (as the context counts it, round + 1) and by its     *)
(* length in bytes.  invoke_agent stands for a call to an external model   *)
(* and returns a Result: the length of the reply is drawn from ReplyLens   *)
(* and the call may return Err, which `?` hands to the caller.  last holds *)
(* the locals of the running call: round, the position pos in the          *)
(* iteration over the agents, current_solution and discussion_log.         *)
(***************************************************************************)
ReplyLens == {10, 59, 60}

MaxRoundsArgs == 0..MaxRounds

\* agent.name.len() of the registered agents
name_len == [id \in Uuids |-> IF id = "u1" THEN 10 ELSE 11]

\* String::new()
EmptyText == [agent |-> None, round |-> 0, len |-> 0]

abs_diff(a, b) == IF a >= b THEN a - b ELSE b - a

\* AgentSwarm::has_converged
has_converged(discussion_log) ==
    LET n == Len(discussion_log)
    IN  IF n < 4 THEN FALSE
        ELSE abs_diff(discussion_log[n].len, discussion_log[n - 1].len) < 50

\* a loop that runs one round too many
rounds_left_inclusive(round, max_rounds) == round + 1 <= max_rounds

\* for round in 0..max_rounds: another round follows round
rounds_left(round, max_rounds) == round + 1 < max_rounds

Discussing == last.op = "discussion" /\ last.pc = "round"

\* discussion(task, max_rounds) is called: the locals are initialised and the
\* first round is entered, or the loop is skipped and Ok(String::new()) returned
discussion_begin(max_rounds, order) ==
    /\ last.op # "discussion"
    /\ last' = [op |-> "discussion", max_rounds |-> max_rounds,
                order |-> order, round |-> 0, pos |-> 1,
                current_solution |-> EmptyText, discussion_log |-> << >>,
                pc |-> IF max_rounds > 0 THEN "round" ELSE "done",
                ok |-> TRUE, ret |-> EmptyText]
    /\ UNCHANGED <<agents, routing_cache, tournament_history, perf_updates>>

\* the body of `for agent in self.agents.values()`: the call returns Ok(reply)
\* of reply_len bytes, or Err (reply_len = << >>)
discussion_invoke(reply_len) ==
    /\ Discussing
    /\ last.pos <= Len(last.order)
    /\ LET agent == last.order[last.pos]
       IN  IF reply_len = << >>
           THEN last' = [last EXCEPT !.pc = "done", !.ok = FALSE,
                                      !.ret = EmptyText]
           ELSE LET response == [agent |-> agent, round |-> last.round + 1,
                                 len |-> reply_len[1]]
                    entry == [response EXCEPT
                                 !.len = name_len[agent] + 2 + reply_len[1]]
                IN  last' = [last EXCEPT
                                !.discussion_log = Append(@, entry),
                                !.current_solution = response,
                                !.pos = @ + 1]
    /\ UNCHANGED <<agents, routing_cache, tournament_history, perf_updates>>

\* the end of a round: the convergence check, then the next round or
\* Ok(current_solution)
discussion_round_end ==
    /\ Discussing
    /\ last.pos > Len(last.order)
    /\ IF (last.round > 0 /\ has_converged(last.discussion_log))
          \/ ~rounds_left(last.round, last.max_rounds)
       THEN last' = [last EXCEPT !.pc = "done",
                                  !.ret = last.current_solution]
       ELSE last' = [last EXCEPT !.round = @ + 1, !.pos = 1]
    /\ UNCHANGED <<agents, routing_cache, tournament_history, perf_updates>>

DiscussNext ==
    \/ /\ last.op # "discussion"
       /\ Uuids \ DOMAIN agents # {}
       /\ register_agent(new_v4, {"Reasoning"})
       /\ UNCHANGED rpc_vars
    \/ \E max_rounds \in MaxRoundsArgs :
          \E order \in IterationOrders(DOMAIN agents) :
            discussion_begin(max_rounds, order) /\ UNCHANGED rpc_vars
    \/ \E reply_len \in {<< >>} \cup {<<l>> : l \in ReplyLens} :
          discussion_invoke(reply_len) /\ UNCHANGED rpc_vars
    \/ discussion_round_end /\ UNCHANGED rpc_vars

DiscussSpec == Init /\ [][DiscussNext]_vars

(***************************************************************************)
(* agent_swarm.rs -- AgentSwarm::sandbox_check.  A string is the sequence  *)
(* of its characters; the outputs checked are put together from pieces     *)
(* that make up the dangerous patterns, parts of them and look-alikes.     *)
(***************************************************************************)
dangerous_patterns ==
    << <<"r", "m", " ", "-", "r", "f">>,
       <<"d", "d", " ", "i", "f", "=">>,
       <<"m", "k", "f", "s", ".">>,
       <<":", "(", ")", "{", ":", "|", ":", "&", "}", ";", ":">>,
       <<"w", "g", "e", "t">>,
       <<"c", "u", "r", "l">> >>

Fragments ==
    { <<"r", "m">>,
      <<" ", "-", "r", "f">>,
      <<" ", "-", "r">>,
      <<"f">>,
      <<"d", "d", " ", "i", "f">>,
      <<"=">>,
      <<"m", "k", "f", "s">>,
      <<".">>,
      <<":", "(", ")", "{", ":", "|", ":">>,
      <<"&", "}", ";", ":">>,
      <<"w">>,
      <<"g", "e", "t">>,
      <<"e", "c", "h", "o", " ", "c", "u", "r">>,
      <<"l">>,
      <<"R", "M", " ", "-", "R", "F">>,
      <<"l", "s", " ">> }

RECURSIVE OutputsOf(_)
OutputsOf(n) ==
    IF n = 0 THEN {<< >>}
    ELSE LET shorter == OutputsOf(n - 1)
         IN  shorter \cup {o \o f : o \in shorter, f \in Fragments}

Outputs == OutputsOf(MaxFragments)

\* str::starts_with
RECURSIVE starts_with(_, _)
starts_with(s, pattern) ==
    IF pattern = << >> THEN TRUE
    ELSE IF s = << >> THEN FALSE
    ELSE Head(s) = Head(pattern) /\ starts_with(Tail(s), Tail(pattern))

\* a search that looks at the start of the string only
contains_at_start(s, pattern) == starts_with(s, pattern)

\* str::contains: the pattern starts at some position of s
RECURSIVE contains(_, _)
contains(s, pattern) ==
    IF starts_with(s, pattern) THEN TRUE
    ELSE IF s = << >> THEN FALSE
    ELSE contains(Tail(s), pattern)

\* for pattern in &dangerous_patterns, from the k-th on: Ok(false) at the
\* first pattern the output contains, Ok(true) after the last
RECURSIVE sandbox_scan(_, _)
sandbox_scan(output, k) ==
    IF k > Len(dangerous_patterns) THEN [ok |-> TRUE, value |-> TRUE]
    ELSE IF contains(output, dangerous_patterns[k])
         THEN [ok |-> TRUE, value |-> FALSE]
         ELSE sandbox_scan(output, k + 1)

\* AgentSwarm::sandbox_check
sandbox_check(output) == sandbox_scan(output, 1)

\* the output string handed to the check
SandboxInit ==
    /\ BrainState_new
    /\ read_holders = {} /\ write_holders = {}
    /\ main_pc = "accept" /\ signal_pc = "waiting"
    /\ pc = [c \in Conns |-> "closed"]
    /\ local = [c \in Conns |-> NoResponse]
    /\ resp = [c \in Conns |-> NoResponse]
    /\ next_id = 0
    /\ returned = << >>
    /\ confirmed = {}
    /\ agents = << >>
    /\ routing_cache = << >>
    /\ tournament_history = << >>
    /\ perf_updates = 0
    /\ \E output \in Outputs : last = [op |-> "output", output |-> output]

call_sandbox_check ==
    /\ last.op = "output"
    /\ last' = [op |-> "sandbox_check", output |-> last.output,
                ret |-> sandbox_check(last.output)]
    /\ UNCHANGED <<agents, routing_cache, tournament_history, perf_updates>>

SandboxNext == call_sandbox_check /\ UNCHANGED rpc_vars

SandboxSpec == SandboxInit /\ [][SandboxNext]_vars

(***************************************************************************)
(* Properties of the RPC gate (specification Spec).                        *)
(***************************************************************************)
WipeText == <<"wipe", "all", "data", "immediately">>

IsResult(x, m) == x.method = m /\ x.ok

\* C1: classifying "wipe all data immediately" yields Security /
\* data_destruction with confidence >= 0.9, and gated against the default
\* threshold 0.95 the result requires confirmation.
C1_WipeRequiresConfirmation ==
    \A c \in Conns :
        (/\ IsResult(resp[c], "parse_intent")
         /\ resp[c].req.text = <<WipeText>>
         /\ resp[c].threshold_read = DefaultThreshold)
        => /\ resp[c].category = "Security"
           /\ resp[c].action = "data_destruction"
           /\ resp[c].confidence >= 9 * (ConfScale \div 10)
           /\ resp[c].requires_confirmation

\* C2: a parse_intent result requires confirmation exactly when the intent's
\* confidence is below the threshold held in the shared state while the
\* request is served; at confidence = threshold it does not.
C2_GateIsStrictComparison ==
    \A c \in Conns :
        /\ (pc[c] = "locked" /\ local[c].method = "parse_intent")
           => /\ local[c].threshold_read = confidence_threshold
              /\ local[c].requires_confirmation
                  <=> (local[c].confidence < confidence_threshold)
        /\ IsResult(resp[c], "parse_intent")
           => /\ resp[c].threshold_read \in 0..ConfScale
              /\ resp[c].requires_confirmation
                  <=> (resp[c].confidence < resp[c].threshold_read)

C2_BoundaryServed ==
    \E c \in Conns :
        /\ IsResult(resp[c], "parse_intent")
        /\ resp[c].confidence = resp[c].threshold_read
        /\ ~resp[c].requires_confirmation

\* C3: a task is queued for an intent only after the intent passed the gate:
\* it did not require confirmation, or an authorize with confirmed = true
\* for its id was served before.
C3_RoutedOnlyAfterGate ==
    \A c \in Conns :
        (/\ IsResult(resp[c], "route_task")
         /\ resp[c].status = "queued"
         /\ resp[c].intent_id \in DOMAIN returned)
        => \/ ~returned[resp[c].intent_id].requires_confirmation
           \/ resp[c].intent_id \in confirmed

\* C4: authorize answers authorized = true only to confirmed = true; an
\* absent or non-boolean flag gives authorized = false; missing params or
\* intent_id give an error.
C4_AuthorizeNeverDefaultsOpen ==
    \A c \in Conns :
        resp[c].method = "authorize" =>
            LET q == resp[c].req
                complete == q.params /\ q.intent_id # << >>
            IN  /\ ~complete => ~resp[c].ok
                /\ complete => resp[c].ok
                /\ resp[c].ok =>
                      /\ resp[c].authorized <=> (q.confirmed = "true")
                      /\ q.confirmed \in {"absent", "string"}
                         => ~resp[c].authorized

C4_NonBooleanFlagDenied ==
    \E c \in Conns :
        /\ IsResult(resp[c], "authorize")
        /\ resp[c].req.confirmed = "string"
        /\ ~resp[c].authorized

\* C5: authorize and route_task for an intent id that no parse_intent has
\* returned are answered with a NotFound error, never with a result.
C5_UnknownIntentRejected ==
    \A c \in Conns :
        (/\ resp[c].method \in {"authorize", "route_task"}
         /\ resp[c].req.params
         /\ resp[c].req.intent_id # << >>
         /\ resp[c].req.intent_id[1] \notin DOMAIN returned)
        => ~resp[c].ok /\ resp[c].cause = "not_found"

(***************************************************************************)
(* Properties of the lock discipline (specification ConcSpec).             *)
(***************************************************************************)
Tasks == Conns \cup {"signal"}

\* task t is inside a section that assigns a field of BrainState
Writing(t) ==
    IF t = "signal" THEN signal_pc = "locked"
    ELSE pc[t] = "locked" /\ local[t].method \in {"set_threshold", "emergency_wipe"}

\* task t is inside a section that only reads BrainState
Reading(t) ==
    /\ t \in Conns
    /\ pc[t] = "locked"
    /\ local[t].method \notin {"set_threshold", "emergency_wipe"}

StdDevBelow(scores, d) ==
    LET n     == Cardinality(DOMAIN scores)
        total == SumOver(DOMAIN scores, scores)
        dev   == [a \in DOMAIN scores |->
                    (n * scores[a] - total) * (n * scores[a] - total)]
    IN  SumOver(DOMAIN scores, dev) < d * d * n * n * n

StdDevIs(scores, d) ==
    LET n     == Cardinality(DOMAIN scores)
        total == SumOver(DOMAIN scores, scores)
        dev   == [a \in DOMAIN scores |->
                    (n * scores[a] - total) * (n * scores[a] - total)]
    IN  SumOver(DOMAIN scores, dev) = d * d * n * n * n

TournamentRan == Len(tournament_history') = Len(tournament_history) + 1

\* C6: a successful tournament for task type T writes T -> winner's id into
\* the routing cache exactly when 1 - stddev(voting scores) > 0.7, that is
\* when the standard deviation is below 0.3; at 0.7 or lower, and in every
\* step that is not a successful tournament, the cache stays as it was.
C6_CacheWrittenIffConsensusAboveCut ==
    [][ IF TournamentRan
        THEN LET res == tournament_history'[Len(tournament_history')]
             IN  IF StdDevBelow(res.voting_scores, 100 - ConsensusCut)
                 THEN routing_cache' =
                        [t \in DOMAIN routing_cache \cup {last'.task_type} |->
                            IF t = last'.task_type THEN res.winner.agent_id
                            ELSE routing_cache[t]]
                 ELSE routing_cache' = routing_cache
        ELSE routing_cache' = routing_cache ]_vars

\* C6 witness: a tournament ended with consensus exactly 0.7 and its task type
\* has no cache entry, while an earlier tournament did write one.
C6_NoWriteAtExactlyCut ==
    /\ last.op = "tournament" /\ last.ok
    /\ StdDevIs(last.result.voting_scores, 100 - ConsensusCut)
    /\ last.task_type \notin DOMAIN routing_cache
    /\ routing_cache # << >>

\* C7: route_task(T) returns the cached agent whenever T has a cache entry,
\* and a cache entry is never removed and changes only in a successful
\* tournament for T whose consensus is above 0.7, which sets it to the winner.
C7_CachedAgentReturnedUntilOverwritten ==
    [][ /\ (last'.op = "route_task" /\ last'.task_type \in DOMAIN routing_cache')
            => last'.ret = <<routing_cache'[last'.task_type]>>
        /\ \A t \in DOMAIN routing_cache :
              /\ t \in DOMAIN routing_cache'
              /\ routing_cache'[t] # routing_cache[t] =>
                    /\ TournamentRan
                    /\ last'.task_type = t
                    /\ StdDevBelow(last'.result.voting_scores, 100 - ConsensusCut)
                    /\ routing_cache'[t] = last'.result.winner.agent_id ]_vars

\* C7 witness: route_task returned the cached agent although another capable
\* agent has a higher routing score.
C7_CachedReturnedOverBetterAgent ==
    /\ last.op = "route_task"
    /\ last.task_type \in DOMAIN routing_cache
    /\ last.ret = <<routing_cache[last.task_type]>>
    /\ \E b \in capable_agents(last.task_type) :
          routing_score(agents[b]) > routing_score(agents[routing_cache[last.task_type]])

\* the cache entry of a task type was replaced by a later tournament's winner
C7_EntryOverwritten ==
    /\ Len(tournament_history) = 2
    /\ \E t \in TaskTypes : DOMAIN routing_cache = {t}
    /\ \A i \in 1..2 : StdDevBelow(tournament_history[i].voting_scores,
                                      100 - ConsensusCut)
    /\ tournament_history[1].winner.agent_id # tournament_history[2].winner.agent_id

\* C8: without a cache entry for the task type, route_task returns nothing
\* exactly when no registered agent is capable, and otherwise a capable agent
\* whose routing score no capable agent exceeds; a route_task call changes
\* neither the registry, the cache nor the history.
C8_UncachedRouteIsBestCapable ==
    [][ last'.op = "route_task" =>
          /\ UNCHANGED <<agents, routing_cache, tournament_history>>
          /\ last'.task_type \notin DOMAIN routing_cache =>
                LET capable == capable_agents(last'.task_type)
                    ret     == last'.ret
                IN  /\ (ret = << >>) <=> (capable = {})
                    /\ ret # << >> =>
                          /\ Len(ret) = 1
                          /\ ret[1] \in capable
                          /\ \A b \in capable :
                                routing_score(agents[b]) <= routing_score(agents[ret[1]]) ]_vars

\* C8 witness: two capable agents with different routing scores, no cache
\* entry, and route_task returned the higher one.
C8_BetterOfTwoReturned ==
    /\ last.op = "route_task"
    /\ last.task_type \notin DOMAIN routing_cache
    /\ last.ret # << >>
    /\ \E b \in capable_agents(last.task_type) :
          routing_score(agents[b]) < routing_score(agents[last.ret[1]])

Served(c) == pc[c] = "idle" /\ pc'[c] = "locked"

\* C11: the threshold in the shared state changes only when an accepted
\* set_threshold(v) takes the write guard, and then to v; every parse_intent
\* and get_status reads the value the shared state holds when it is served,
\* and that value is still the shared one when its handler returns; the
\* result a handler has built is written as it is, and a response already
\* written, or a result already built, is not changed by a set_threshold.
C11_ThresholdSeenByLaterRequests ==
    [][ /\ confidence_threshold' # confidence_threshold =>
              \E c \in Conns :
                 /\ Served(c)
                 /\ IsResult(local'[c], "set_threshold")
                 /\ local'[c].req.threshold = <<confidence_threshold'>>
        /\ \A c \in Conns :
              /\ (Served(c) /\ local'[c].method = "parse_intent") =>
                    /\ local'[c].threshold_read = confidence_threshold
                    /\ local'[c].requires_confirmation
                         <=> (local'[c].confidence < confidence_threshold)
              /\ (Served(c) /\ local'[c].method = "get_status") =>
                    local'[c].confidence_threshold = confidence_threshold
              /\ (pc'[c] = "locked" /\ local'[c].method = "parse_intent") =>
                    local'[c].threshold_read = confidence_threshold'
              /\ (pc'[c] = "locked" /\ local'[c].method = "get_status") =>
                    local'[c].confidence_threshold = confidence_threshold'
              /\ (pc[c] = "locked" /\ pc'[c] = "locked") => local'[c] = local[c]
              /\ (pc[c] = "locked" /\ pc'[c] = "idle") => resp'[c] = local[c]
              /\ (confidence_threshold' # confidence_threshold /\ ~Served(c)) =>
                    resp'[c] = resp[c] /\ local'[c] = local[c]
      ]_vars

\* C11 witness: a parse_intent was answered under the default threshold, a
\* set_threshold(1.0) completed after it, and a later get_status reports 1.0
\* while the earlier answer still shows the default.
C11_OldAnswerKeptNewValueReported ==
    \E c, d \in Conns :
       /\ IsResult(resp[c], "parse_intent")
       /\ resp[c].threshold_read = DefaultThreshold
       /\ ~resp[c].requires_confirmation
       /\ IsResult(resp[d], "get_status")
       /\ resp[d].confidence_threshold = ConfScale
       /\ confidence_threshold = ConfScale

InUnitRange(v) == v \in 0..ConfScale

\* C12: set_threshold is accepted, and sets the shared threshold to v, only
\* for a present v with 0 <= v <= 1; it is answered with the invalid-params
\* error, the threshold unchanged, only when v is missing or outside [0,1];
\* the shared threshold is in [0,1] in every state.
C12_ThresholdAcceptedIffInUnitRange ==
    [][ /\ InUnitRange(confidence_threshold)
        /\ InUnitRange(confidence_threshold')
        /\ \A c \in Conns :
              /\ (Served(c) /\ local'[c].method = "set_threshold") =>
                    /\ local'[c].ok
                    /\ local'[c].req.params
                    /\ local'[c].req.threshold # << >>
                    /\ InUnitRange(local'[c].req.threshold[1])
                    /\ local'[c].threshold = local'[c].req.threshold[1]
                    /\ confidence_threshold' = local'[c].req.threshold[1]
              /\ (resp'[c] # resp[c] /\ resp'[c].method = "set_threshold"
                    /\ ~resp'[c].ok) =>
                    /\ resp'[c].code = 0 - 32602
                    /\ confidence_threshold' = confidence_threshold
                    /\ \/ ~resp'[c].req.params
                       \/ resp'[c].req.threshold = << >>
                       \/ ~InUnitRange(resp'[c].req.threshold[1])
      ]_vars

\* C12 witness: set_threshold(0.0) was accepted and a later set_threshold(1.5)
\* was refused, the threshold still 0.0.
C12_OutOfRangeRefusedAfterBoundaryAccepted ==
    \E c \in Conns :
       /\ resp[c].method = "set_threshold" /\ ~resp[c].ok
       /\ resp[c].req.params
       /\ resp[c].req.threshold = <<15 * (ConfScale \div 10)>>
       /\ confidence_threshold = 0

\* the answers of connection c: the result its handler holds, and the
\* response last written to it
Answers(c) == {local[c], resp[c]}

\* C13: a parse_intent request that carries a text succeeds whether or not
\* log_intent succeeded, with the category, action and confidence of the
\* classifier and the gate's decision for the threshold it read; only the
\* failed write is missing from the store.
C13_LogFailureLeavesAnswerAlone ==
    \A c \in Conns : \A x \in Answers(c) :
        (x.method = "parse_intent" /\ "logged" \in DOMAIN x) =>
            LET intent == parse(x.req.text[1])
            IN  /\ x.ok
                /\ x.category = intent.category
                /\ x.action = intent.action
                /\ x.confidence = intent.confidence
                /\ x.requires_confirmation <=> (x.confidence < x.threshold_read)
                /\ ~x.logged => x.intent_id \notin store_intents

\* C13 witness: log_intent failed, and the answer still reports the
\* classification and asks for confirmation.
C13_AnsweredThoughLogFailed ==
    \E c \in Conns :
       /\ IsResult(resp[c], "parse_intent")
       /\ ~resp[c].logged
       /\ resp[c].requires_confirmation
       /\ resp[c].category = "Security"
       /\ store_intents = {}

(***************************************************************************)
(* Further properties of the agent swarm, checked under SwarmSpec.         *)
(***************************************************************************)
NoCapableAgents == "No capable agents found"

NoneCapable(task_type) ==
    \A a \in DOMAIN agents : ~is_capable(agents[a], task_type)

\* C14: a tournament for a task type no registered agent is capable of fails
\* with the no-capable-agents error and leaves the registry, the routing
\* cache and the history as they were; the error is given in no other case.
C14_NoCapableAgentsFailsWithoutEffect ==
    [][ last'.op = "tournament" =>
          /\ NoneCapable(last'.task_type) =>
                /\ ~last'.ok
                /\ last'.error = NoCapableAgents
                /\ UNCHANGED <<agents, routing_cache, tournament_history>>
          /\ (~last'.ok /\ last'.error = NoCapableAgents) =>
                NoneCapable(last'.task_type) ]_vars

\* C14 witness: agents are registered, a tournament has been recorded, and a
\* tournament for "code" failed because none of the agents generates code.
C14_RegisteredButNoneCapable ==
    /\ last.op = "tournament" /\ ~last.ok
    /\ last.error = NoCapableAgents
    /\ last.task_type = "code"
    /\ DOMAIN agents = Uuids
    /\ tournament_history # << >>

(***************************************************************************)
(* Properties of update_performance, checked under PerfSpec.               *)
(***************************************************************************)
InUnit(rate) == 0 <= rate /\ rate <= RateScale

\* C15: after every update_performance call the agent's success_rate and
\* confidence_score lie in [0,1] and confidence_score equals success_rate.
C15_RatesStayInUnitRangeAndEqual ==
    \A a \in DOMAIN agents :
        /\ InUnit(agents[a].success_rate)
        /\ InUnit(agents[a].confidence_score)
        /\ (last.op = "update_performance" /\ last.id = a) =>
              agents[a].confidence_score = agents[a].success_rate

\* C15 witness: a fresh agent (confidence 0.5, success_rate 0) was updated
\* twice, a failure and then a success, and both values are 0.1.
C15_FreshAgentUpdatedTwice ==
    /\ last.op = "update_performance" /\ last.success
    /\ perf_updates = 2
    /\ last.before.confidence_score = 0 /\ last.before.success_rate = 0
    /\ last.before.avg_response_time_ms # 0
    /\ agents[last.id].success_rate = RateScale \div 10
    /\ agents[last.id].confidence_score = RateScale \div 10

\* consensus_level = 1.0 - sqrt(num / den) is a number, and it is 1.0
WellDefined(consensus_level) == consensus_level.den > 0
IsOne(consensus_level) == consensus_level.den > 0 /\ consensus_level.num = 0

\* C16: a tournament with exactly one capable agent, whose invocation
\* returns, completes: its one response wins with voting score 0 (nothing is
\* divided by n - 1 = 0), and the consensus level is a number, namely 1.0.
C16_SingleAgentTournamentCompletes ==
    (/\ last.op = "tournament"
     /\ last.failed_call = "none"
     /\ Cardinality(capable_agents(last.task_type)) = 1)
    => /\ last.ok
       /\ \A a \in capable_agents(last.task_type) :
             /\ last.result.winner.agent_id = a
             /\ Len(last.result.all_responses) = 1
             /\ last.result.voting_scores = (a :> 0)
       /\ WellDefined(last.result.consensus_level)
       /\ IsOne(last.result.consensus_level)
       /\ tournament_history[Len(tournament_history)] = last.result

\* C16 witness: two agents are registered, only one of them generates code,
\* and a tournament for "code" ended with that agent as the winner.
C16_OnlyCodeAgentWins ==
    /\ last.op = "tournament" /\ last.ok
    /\ last.task_type = "code"
    /\ DOMAIN agents = Uuids
    /\ capable_agents("code") = {last.result.winner.agent_id}

(***************************************************************************)
(* Properties of the consensus arithmetic, checked under ConsensusSpec.    *)
(***************************************************************************)
\* C17: with three responses and every critique returning the same score,
\* the three voting scores are equal, their population variance is 0 and
\* the consensus level is exactly 1.0.
C17_EqualCritiquesGiveConsensusOne ==
    (last.op = "consensus_level" /\ last.n = 3) =>
        /\ \A i, j \in 1..3 : last.voting_scores[i] = last.voting_scores[j]
        /\ last.variance = 0
        /\ last.consensus_level = F64_one

(***************************************************************************)
(* Properties of a tournament's result, checked under SwarmSpec.           *)
(***************************************************************************)
ResponseIds(res) ==
    {res.all_responses[i].agent_id : i \in DOMAIN res.all_responses}

\* C18: in every recorded TournamentResult the keys of voting_scores are the
\* agent ids of all_responses, no agent has two responses, and the result a
\* tournament appends holds a response of every agent capable of its task
\* type and of no other.
C18_OneScoreAndOneResponsePerCapableAgent ==
    [][ /\ \A i \in DOMAIN tournament_history' :
              LET res == tournament_history'[i]
              IN  /\ DOMAIN res.voting_scores = ResponseIds(res)
                  /\ Cardinality(ResponseIds(res)) = Len(res.all_responses)
        /\ TournamentRan =>
              ResponseIds(tournament_history'[Len(tournament_history')])
                = {a \in DOMAIN agents : is_capable(agents[a], last'.task_type)}
      ]_vars

\* C18 witness: the history holds a result with one response and a later one
\* with two, each with as many voting scores.
C18_ResultsOfOneAndTwoResponses ==
    /\ Len(tournament_history) = 2
    /\ Len(tournament_history[1].all_responses) = 1
    /\ Len(tournament_history[2].all_responses) = 2
    /\ Cardinality(DOMAIN tournament_history[2].voting_scores) = 2


(***************************************************************************)
(* Properties of the classifier (specification ClassifySpec).              *)
(***************************************************************************)
ConfidenceCap == 99 * (ConfScale \div 100)

DefaultConfidence == 3 * (ConfScale \div 10)

\* base x length factor x (1 + 0.05 x (occurrences - 1)), in units of 1e-5
Adjusted(text, r) ==
    Patterns[r].base * (IF Len(text) > 3 THEN 10 ELSE 9)
        * (100 + 5 * (match_count(text, r) - 1))

Matching(text) == {r \in 1..Len(Patterns) : match_count(text, r) > 0}

\* C19: every classification returns a confidence in [0, 0.99]: with no
\* matching rule it is the default 0.3, otherwise it is the adjusted
\* confidence of a matching rule, cut at 0.99, and the largest such value.
C19_ConfidenceInRangeAndCapped ==
    \A i \in 1..Len(Calls) :
        LET text == Calls[i].text
            c    == Calls[i].intent.confidence
        IN  /\ 0 <= c /\ c <= ConfidenceCap
            /\ Matching(text) = {} => c = DefaultConfidence
            /\ Matching(text) # {} =>
                  /\ \E r \in Matching(text) :
                        c = Min(Adjusted(text, r), ConfidenceCap)
                  /\ \A r \in Matching(text) :
                        c >= Min(Adjusted(text, r), ConfidenceCap)

\* C19 witness: a text whose adjusted confidence exceeds 0.99 was classified
\* at exactly 0.99, and a text that matches no rule at 0.3.
C19_CappedAndDefaultClassified ==
    /\ \E i \in 1..Len(Calls) :
          /\ \E r \in Matching(Calls[i].text) :
                Adjusted(Calls[i].text, r) > ConfidenceCap
          /\ Calls[i].intent.confidence = ConfidenceCap
    /\ \E i \in 1..Len(Calls) :
          /\ Matching(Calls[i].text) = {}
          /\ Calls[i].intent.confidence = DefaultConfidence

MaximalPositions(res) ==
    {i \in DOMAIN res.all_responses :
        \A j \in DOMAIN res.all_responses :
            res.voting_scores[res.all_responses[j].agent_id]
                <= res.voting_scores[res.all_responses[i].agent_id]}

\* C21: the winner of every recorded tournament has a maximal voting score
\* and, when several responses share it, is the first of them in the order
\* of the responses.
C21_WinnerIsFirstMaximal ==
    \A k \in DOMAIN tournament_history :
        LET res == tournament_history[k]
        IN  \E i \in MaximalPositions(res) :
                /\ res.winner = res.all_responses[i]
                /\ \A j \in MaximalPositions(res) : i <= j

(***************************************************************************)
(* Properties of a discussion (specification DiscussSpec).                 *)
(***************************************************************************)
RoundOver ==
    /\ Discussing
    /\ last.pos > Len(last.order)

LastTwoClose ==
    LET n == Len(last.discussion_log)
    IN  /\ n >= 2
        /\ abs_diff(last.discussion_log[n].len,
                    last.discussion_log[n - 1].len) < 50

EntriesOf(a, r) ==
    {i \in DOMAIN last.discussion_log :
        /\ last.discussion_log[i].agent = a
        /\ last.discussion_log[i].round = r}

\* the rounds, counted from 1, whose iteration over the agents is over
RoundsOver ==
    IF last.pos > Len(last.order) THEN 1..(last.round + 1) ELSE 1..last.round

Returned == last.op = "discussion" /\ last.pc = "done" /\ last.ok

UpdatedOnce(node, after, ms) ==
    /\ after.capabilities = node.capabilities
    /\ after.success_rate * 10 <= RateScale + 9 * node.success_rate
    /\ after.success_rate * 10 > RateScale + 9 * node.success_rate - 10
    /\ after.confidence_score = after.success_rate
    /\ node.avg_response_time_ms = 0 => after.avg_response_time_ms = ms
    /\ node.avg_response_time_ms # 0 =>
          /\ after.avg_response_time_ms * 10 <= 9 * node.avg_response_time_ms + ms
          /\ after.avg_response_time_ms * 10 > 9 * node.avg_response_time_ms + ms - 10

C24_AverageTimeFollowsRule ==
    last.op = "update_performance" =>
        LET node  == agents[last.id]
            old   == last.before.avg_response_time_ms
            blend == 9 * old + last.response_time_ms
        IN  /\ (perf_updates = 1 /\ last.before = AgentNode_new(node.capabilities))
                  => node.avg_response_time_ms = last.response_time_ms
            /\ perf_updates >= 2 =>
                  /\ node.avg_response_time_ms * 10 <= blend
                  /\ node.avg_response_time_ms * 10 > blend - 10

\* C30: an update with success = true never leaves the agent with a lower
\* confidence_score than it had before the update.
C30_SuccessNeverLowersConfidence ==
    (last.op = "update_performance" /\ last.success) =>
        agents[last.id].confidence_score >= last.before.confidence_score

(***************************************************************************)
(* Properties of capability matching (specification SwarmSpec).            *)
(***************************************************************************)
AgentCapability ==
    {"CodeGeneration", "NaturalLanguage", "DataAnalysis", "ImageGeneration",
     "Reasoning", "Planning", "Critique", "Synthesis"}

\* the capability each recognised task type asks for
Required ==
    [t \in {"code", "text", "data", "image", "reasoning", "planning"} |->
        CASE t = "code"      -> "CodeGeneration"
          [] t = "text"      -> "NaturalLanguage"
          [] t = "data"      -> "DataAnalysis"
          [] t = "image"     -> "ImageGeneration"
          [] t = "reasoning" -> "Reasoning"
          [] t = "planning"  -> "Planning"]

Unrecognised == {"summarize", "", "Code"}

\* C26: whatever an agent declares, it is capable of a recognised task type
\* exactly if it declares the capability that type asks for, and of every
\* unrecognised type; a route or tournament for an unrecognised type takes
\* every registered agent as a candidate, so the route returns nothing and
\* the tournament reports no capable agent only with an empty registry.
C26_CapabilityLookupAndOpenDefault ==
    /\ \A caps \in SUBSET AgentCapability :
          /\ \A t \in DOMAIN Required :
                is_capable(AgentNode_new(caps), t) <=> Required[t] \in caps
          /\ \A t \in Unrecognised : is_capable(AgentNode_new(caps), t)
    /\ \A a \in DOMAIN agents :
          /\ \A t \in DOMAIN Required :
                a \in capable_agents(t) <=> Required[t] \in agents[a].capabilities
          /\ \A t \in Unrecognised : a \in capable_agents(t)
    /\ (last.op = "route_task" /\ last.task_type \notin DOMAIN Required) =>
          /\ last.ret = << >> <=> DOMAIN agents = {}
          /\ last.ret # << >> => last.ret[1] \in DOMAIN agents
    /\ (last.op = "tournament" /\ last.task_type \notin DOMAIN Required) =>
          /\ (~last.ok /\ last.failed_call = "none") <=> DOMAIN agents = {}
          /\ last.ok => ResponseIds(last.result) = DOMAIN agents

\* C26 witness: two agents that declare different capabilities, neither of
\* them asked for by name, both answered a tournament for "summarize".
C26_AllAgentsEnterUnrecognisedTournament ==
    /\ last.op = "tournament" /\ last.ok
    /\ last.task_type = "summarize"
    /\ DOMAIN agents = Uuids
    /\ \E a, b \in DOMAIN agents :
          agents[a].capabilities # agents[b].capabilities
    /\ ResponseIds(last.result) = Uuids

(***************************************************************************)
(* Properties of the classifier, continued (specification ClassifySpec).   *)
(***************************************************************************)
\* the adjusted confidence of rule r for text: the product, cut at 0.99
Capped(text, r) == Min(Adjusted(text, r), ConfidenceCap)

\* the earliest of the matching rules whose adjusted confidence is highest
Winner(text) ==
    CHOOSE r \in Matching(text) :
        /\ \A q \in Matching(text) : Capped(text, q) <= Capped(text, r)
        /\ \A q \in Matching(text) :
              Capped(text, q) = Capped(text, r) => r <= q

\* C27: every classification, when it is made, carries the category and
\* action of the matching rule with the highest adjusted confidence, the
\* earliest such rule on a tie, with that confidence; with no matching rule
\* it is Unknown, "unknown" and 0.3.
C27_HighestAdjustedEarliestOnTie ==
    Calls # << >> =>
        LET text   == Calls[Len(Calls)].text
            intent == Calls[Len(Calls)].intent
        IN  /\ Matching(text) = {} =>
                  /\ intent.category = "Unknown"
                  /\ intent.action = "unknown"
                  /\ intent.confidence = DefaultConfidence
            /\ Matching(text) # {} =>
                  /\ intent.category = Patterns[Winner(text)].category
                  /\ intent.action = Patterns[Winner(text)].action
                  /\ intent.confidence = Capped(text, Winner(text))

\* C27 witness: a text of three words was classified with the length factor
\* 0.9, and a text on which two rules tie at the highest adjusted confidence
\* was given to the earlier of them.
C27_ShortTextAndTieClassified ==
    /\ \E i \in 1..Len(Calls) :
          /\ Len(Calls[i].text) = 3
          /\ Calls[i].intent.confidence = 855 * (ConfScale \div 1000)
    /\ \E i \in 1..Len(Calls) :
          \E r, q \in Matching(Calls[i].text) :
              /\ r < q
              /\ Capped(Calls[i].text, r) = Capped(Calls[i].text, q)
              /\ Winner(Calls[i].text) = r
              /\ Calls[i].intent.action = Patterns[r].action

(***************************************************************************)
(* Properties of the shutdown path (specification ConcSpec).               *)
(***************************************************************************)
Accepts == main_pc = "accept" /\ main_pc' = "check"

\* C29: once emergency_triggered is set no step clears it; the accept loop,
\* when it next reaches its check, leaves the loop, so after the flag is set
\* at most one accept returns, and once the loop is left no connection is
\* accepted any more.
C29_EmergencyFlagStaysAndStopsAccepting ==
    [][ /\ emergency_triggered => emergency_triggered'
        /\ (emergency_triggered /\ main_pc = "check")
              => main_pc' \in {"check", "exit"}
        /\ (emergency_triggered /\ Accepts)
              => (emergency_triggered' /\ main_pc' = "check")
        /\ main_pc = "exit" =>
              /\ main_pc' = "exit"
              /\ \A c \in Conns : pc[c] = "closed" => pc'[c] = "closed" ]_vars

\* C29 witness: an emergency_wipe request set the flag while the shutdown
\* signal had not come, both clients had been accepted, and the loop is left.
C29_LoopLeftAfterEmergencyWipe ==
    /\ emergency_triggered
    /\ signal_pc = "waiting"
    /\ main_pc = "exit"
    /\ \A c \in Conns : pc[c] # "closed"
    /\ \E c \in Conns : resp[c].method = "emergency_wipe"

(***************************************************************************)
(* Properties of the sandbox check (specification SandboxSpec).            *)
(***************************************************************************)
\* pattern occurs in s as a run of consecutive characters
OccursIn(s, pattern) ==
    \E i \in 1..Len(s) :
        /\ i + Len(pattern) - 1 <= Len(s)
        /\ SubSeq(s, i, i + Len(pattern) - 1) = pattern

Dangerous(s) ==
    \E k \in DOMAIN dangerous_patterns : OccursIn(s, dangerous_patterns[k])

\* C28: sandbox_check never returns an error, and it returns false exactly
\* for the outputs in which one of the dangerous substrings occurs.
C28_RejectsExactlyDangerousOutputs ==
    last.op = "sandbox_check" =>
        /\ last.ret.ok
        /\ last.ret.value = FALSE <=> Dangerous(last.output)

\* C28 witness: an output was rejected for a pattern that starts in its
\* middle and runs across two of its pieces.
C28_PatternInsideOutputRejected ==
    /\ last.op = "sandbox_check"
    /\ last.ret.ok /\ ~last.ret.value
    /\ \A k \in DOMAIN dangerous_patterns :
          ~starts_with(last.output, dangerous_patterns[k])
    /\ \A f \in Fragments : ~Dangerous(f)

====
